---- MODULE Spec2Model ----
(***************************************************************************)
(* Model of the RVC native engine: the effects graph (dsp/fx_graph.cpp),   *)
(* the inference engine manager (inference/ie_manager.cpp), the stability  *)
(* state of the lock manager (security/lock_manager.cpp) and the JNI entry *)
(* points of rvc_engine.cpp.                                               *)
(*                                                                         *)
(* Single-precision samples are represented on a fixed grid: the integer s *)
(* stands for the sample s / SCALE.                                        *)
(***************************************************************************)
EXTENDS Integers, Sequences, FiniteSets, TLC

VARIABLES
    isEngineInitialized,   \* rvc_engine.cpp: static bool isEngineInitialized
    isRVCTransforming,     \* rvc_engine.cpp: static bool isRVCTransforming
    sharedBuffer,          \* the packet behind sharedBufferPtr when the last call returned
    isModelLoaded_,        \* InferenceEngineManager::isModelLoaded_
    currentModelPath_,     \* InferenceEngineManager::currentModelPath_
    currentEngine_,        \* InferenceEngineManager::currentEngine_
    currentDelegate_,      \* InferenceEngineManager::currentDelegate_
    isDegradationActive_,  \* LockManager::isDegradationActive_
    isPLCActive_,          \* LockManager::isPLCActive_
    currentRVCPrecision_,  \* LockManager::currentRVCPrecision_
    isActive,              \* PacketLossConcealer::isActive
    last,                  \* the last call made
    calls,                 \* the calls the last operation made, in order
    result,                \* what the last operation returned
    benchIn,               \* a triple of latencies handed to the selection rule
    benchOut,              \* the delegate the selection rule returned for it
    plcIn,                 \* a concealer's flag and a buffer handed to its process()
    plcOut,                \* whether process() has run, and the buffer it left
    wdPc,                  \* rvc_engine.cpp: where the thread of watchdog_loop is
    tdPc,                  \* where the teardown of the engine is
    deadlineMissed,        \* the last measured packet took longer than the deadline
    quietTicks,            \* watchdog iterations since the last violation or degrade
    ctlPc,                 \* where the control thread is inside loadModel
    infPc,                 \* where the audio thread is inside runInference
    pipePc,                \* where each invocation of processAudioNative is
    lockPc,                \* where the thread inside a LockManager transition is
    snapPc,                \* which accessor the reader calls next
    snapshot               \* what the reader has read through the accessors

vars == << isEngineInitialized, isRVCTransforming, sharedBuffer,
           isModelLoaded_, currentModelPath_, currentEngine_, currentDelegate_,
           isDegradationActive_, isPLCActive_, currentRVCPrecision_, isActive,
           last, calls, result, benchIn, benchOut, plcIn, plcOut,
           wdPc, tdPc, deadlineMissed, quietTicks,
           ctlPc, infPc, pipePc, lockPc, snapPc, snapshot >>

engineVars == << isModelLoaded_, currentModelPath_, currentEngine_, currentDelegate_ >>
lockVars   == << isDegradationActive_, isPLCActive_, currentRVCPrecision_ >>
jniVars    == << isEngineInitialized, isRVCTransforming >>
benchVars  == << benchIn, benchOut, plcIn, plcOut >>
watchdogVars == << wdPc, tdPc, deadlineMissed, quietTicks >>
concVars   == << ctlPc, infPc, pipePc, lockPc, snapPc, snapshot >>
threadVars == << watchdogVars, concVars >>

----------------------------------------------------------------------------
(* Bounds and input sets *)

MaxSamples == 2

\* grid resolution: three decimal digits
SCALE == 10 * 10 * 10

Samples == { -1500, -4, 1500 }

Buffers == UNION { [1..n -> Samples] : n \in 0..MaxSamples }

\* measured latencies (ms) for the selection rule on its own
Latencies == { 10, 15, 18, 20, 22, 25, 30 }

\* what the two backends' benchmark() measure at a load: << DSP, GPU >>
BenchPairs == { << 15, 18 >>, << 15, 15 >>, << 22, 18 >>, << 25, 22 >> }

Abs(x) == IF x < 0 THEN -x ELSE x

Min(a, b) == IF a < b THEN a ELSE b

Max(a, b) == IF a < b THEN b ELSE a

\* a / d rounded to the nearest grid point (one rounding per float operation)
RoundDiv(a, d) ==
    IF a >= 0 THEN (2 * a + d) \div (2 * d)
              ELSE -((2 * (-a) + d) \div (2 * d))

----------------------------------------------------------------------------
(* dsp/fx_graph.cpp: the effect stages *)

threshold == 5

limit == 990

AcousticEchoCanceller(buffer) ==
    [i \in 1..Len(buffer) |->
        IF Abs(buffer[i]) < threshold THEN 0 ELSE buffer[i]]

RECURSIVE NoiseSuppressorFrom(_, _)
NoiseSuppressorFrom(buffer, i) ==
    IF i > Len(buffer) THEN buffer
    ELSE NoiseSuppressorFrom(
            [buffer EXCEPT ![i] = RoundDiv(buffer[i] * 95, 100)
                                  + RoundDiv(buffer[i - 1] * 5, 100)],
            i + 1)

NoiseSuppressor(buffer) == NoiseSuppressorFrom(buffer, 2)

MutantCompressorUpperOnly(buffer) ==
    [i \in 1..Len(buffer) |-> Min(limit, buffer[i])]

\* 1.0f - (float)i / numSamples for index i - 1 of the source, on the grid
fadeGain(i, numSamples) == SCALE - RoundDiv((i - 1) * SCALE, numSamples)

MultibandCompressor(buffer) ==
    [i \in 1..Len(buffer) |-> Max(-limit, Min(limit, buffer[i]))]

MutantConcealerFadeIn(active, buffer) ==
    IF active
    THEN [i \in 1..Len(buffer) |->
            RoundDiv(buffer[i] * RoundDiv(i * SCALE, Len(buffer)), SCALE)]
    ELSE buffer

\* index i of the source is i - 1 here; the gain is 1.0f - (float)i / numSamples
PacketLossConcealer(active, buffer) ==
    IF active
    THEN [i \in 1..Len(buffer) |->
            RoundDiv(buffer[i] * (SCALE - RoundDiv((i - 1) * SCALE, Len(buffer))),
                     SCALE)]
    ELSE buffer

Ev(name, in, out) == [name |-> name, in |-> in, out |-> out]

Call(name) == Ev(name, << >>, << >>)

\* The three entry points of FXGraph return at once while isInitialized_ is
\* false; the constructor sets it and nothing clears it.

MutantPreprocessingSwapped(buffer) ==
    LET b1 == NoiseSuppressor(buffer)
        b2 == AcousticEchoCanceller(b1)
    IN  [buffer |-> b2,
         calls  |-> << Ev("ns.process", buffer, b1), Ev("aec.process", b1, b2) >>]

\* FXGraph::applyAcousticPreprocessing: [buffer, calls]
applyAcousticPreprocessing(buffer) ==
    LET b1 == AcousticEchoCanceller(buffer)
        b2 == NoiseSuppressor(b1)
    IN  [buffer |-> b2,
         calls  |-> << Ev("aec.process", buffer, b1), Ev("ns.process", b1, b2) >>]

MutantPostProcessingInverted(plcActive, buffer) ==
    IF ~plcActive
    THEN LET b1 == PacketLossConcealer(TRUE, buffer)
         IN  [buffer |-> b1, isActive |-> TRUE,
              calls  |-> << Call("plc.activate"), Ev("plc.process", buffer, b1) >>]
    ELSE LET b1 == MultibandCompressor(buffer)
         IN  [buffer |-> b1, isActive |-> FALSE,
              calls  |-> << Call("plc.deactivate"),
                            Ev("compressor.process", buffer, b1) >>]

\* FXGraph::applyPostProcessing: plcActive is LockManager::isPLCActive()
applyPostProcessing(plcActive, buffer) ==
    IF plcActive
    THEN LET b1 == PacketLossConcealer(TRUE, buffer)
         IN  [buffer |-> b1, isActive |-> TRUE,
              calls  |-> << Call("plc.activate"), Ev("plc.process", buffer, b1) >>]
    ELSE LET b1 == MultibandCompressor(buffer)
         IN  [buffer |-> b1, isActive |-> FALSE,
              calls  |-> << Call("plc.deactivate"),
                            Ev("compressor.process", buffer, b1) >>]

MutantLowPowerWithNS(buffer) ==
    LET b1 == AcousticEchoCanceller(buffer)
        b2 == NoiseSuppressor(b1)
        b3 == MultibandCompressor(b2)
    IN  [buffer |-> b3,
         calls  |-> << Ev("aec.process", buffer, b1), Ev("ns.process", b1, b2),
                       Ev("compressor.process", b2, b3) >>]

\* FXGraph::applyLowPowerDSP
applyLowPowerDSP(buffer) ==
    LET b1 == AcousticEchoCanceller(buffer)
        b2 == MultibandCompressor(b1)
    IN  [buffer |-> b2,
         calls  |-> << Ev("aec.process", buffer, b1),
                       Ev("compressor.process", b1, b2) >>]

----------------------------------------------------------------------------
(* inference/ie_manager.cpp *)

\* A path is the sequence of its characters.
P_tflite   == << "a", ".", "t", "f", "l", "i", "t", "e" >>
P_onnx     == << "b", ".", "o", "n", "n", "x" >>
P_xyz      == << "v", ".", "x", "y", "z" >>

Paths == { P_tflite, P_onnx, P_xyz }

EmptyPath == << >>

SuffixTflite == << ".", "t", "f", "l", "i", "t", "e" >>

SuffixOnnx == << ".", "o", "n", "n", "x" >>

ModelType == { "TFLITE", "ONNX", "UNKNOWN" }

EngineType == { "TFLITE", "ONNX" }

DelegateType == { "DSP", "GPU", "CPU" }

\* path.substr(path.length() - n)
Substr(path, n) == SubSeq(path, Len(path) - n + 1, Len(path))

determineModelType(path) ==
    IF Len(path) >= 7 /\ Substr(path, 7) = SuffixTflite THEN "TFLITE"
    ELSE IF Len(path) >= 5 /\ Substr(path, 5) = SuffixOnnx THEN "ONNX"
    ELSE "UNKNOWN"

\* the backends a delegate runs on: benchmarkAllDelegates measures the DSP on
\* the TFLite engine and the GPU on the ONNX engine; both engines run on CPU
DelegateBackends(delegate) ==
    IF delegate = "DSP" THEN { "TFLITE" }
    ELSE IF delegate = "GPU" THEN { "ONNX" }
    ELSE { "TFLITE", "ONNX" }

\* float cpuTime = 25.0f
cpuTimeMs == 25

\* the latency ceiling of the selection rule (20.0f)
ceilingMs == 20

MutantSelectFastest(dspTime, gpuTime, cpuTime) ==
    IF dspTime < gpuTime /\ dspTime < cpuTime THEN "DSP"
    ELSE IF gpuTime < cpuTime THEN "GPU"
    ELSE "CPU"

\* the selection of InferenceEngineManager::benchmarkAllDelegates
selectDelegate(dspTime, gpuTime, cpuTime) ==
    IF dspTime < gpuTime /\ dspTime < cpuTime /\ dspTime <= ceilingMs THEN "DSP"
    ELSE IF gpuTime < cpuTime /\ gpuTime <= ceilingMs THEN "GPU"
    ELSE "CPU"

\* the EngineState of the manager, as a record
EngineState ==
    [loaded   |-> isModelLoaded_,
     path     |-> currentModelPath_,
     engine   |-> currentEngine_,
     delegate |-> currentDelegate_]

\* InferenceEngineManager::unloadModel
unloadModel(es) == [es EXCEPT !.loaded = FALSE, !.path = EmptyPath]

MutantLoadModelOverlay(es, modelPath, dspTime, gpuTime, backendOk) ==
    LET type == determineModelType(modelPath)
        best == selectDelegate(dspTime, gpuTime, cpuTimeMs)
        e1   == [es EXCEPT !.path = modelPath, !.delegate = best]
        loadSuccess == type # "UNKNOWN" /\ backendOk
        e2   == IF type = "UNKNOWN" THEN e1 ELSE [e1 EXCEPT !.engine = type]
        e3   == IF loadSuccess THEN [e2 EXCEPT !.loaded = TRUE] ELSE e2
    IN  [es |-> e3, ret |-> loadSuccess, best |-> best,
         calls |-> << Call("determineModelType"), Call("benchmarkAllDelegates") >>
                   \o (IF type = "TFLITE" THEN << Call("tflite.loadModel") >>
                       ELSE IF type = "ONNX" THEN << Call("onnx.loadModel") >>
                       ELSE << >>)
                   \o (IF es.loaded THEN << Call("unloadModel") >> ELSE << >>)]

\* InferenceEngineManager::loadModel. dspTime and gpuTime are what the two
\* backends' benchmark() measure, backendOk what the backend's loadModel returns.
loadModel(es, modelPath, dspTime, gpuTime, backendOk) ==
    LET e0   == IF es.loaded THEN unloadModel(es) ELSE es
        type == determineModelType(modelPath)
        best == selectDelegate(dspTime, gpuTime, cpuTimeMs)
        e1   == [e0 EXCEPT !.path = modelPath, !.delegate = best]
        loadSuccess == type # "UNKNOWN" /\ backendOk
        e2   == IF type = "UNKNOWN" THEN e1 ELSE [e1 EXCEPT !.engine = type]
        e3   == IF loadSuccess THEN [e2 EXCEPT !.loaded = TRUE] ELSE e2
    IN  [es |-> e3, ret |-> loadSuccess, best |-> best,
         calls |-> (IF es.loaded THEN << Call("unloadModel") >> ELSE << >>)
                   \o << Call("determineModelType"), Call("benchmarkAllDelegates") >>
                   \o (IF type = "TFLITE" THEN << Call("tflite.loadModel") >>
                       ELSE IF type = "ONNX" THEN << Call("onnx.loadModel") >>
                       ELSE << >>)]

\* InferenceEngineManager::runInference. The backend's run() works in place;
\* throws says whether it raises a std::exception, which is caught here.
runInference(es, buffer, throws) ==
    IF ~es.loaded
    THEN [buffer |-> buffer, calls |-> << Call("runInference") >>]
    ELSE [buffer |-> buffer,
          calls  |-> << Call("runInference") >>
                     \o (IF es.engine = "TFLITE"
                            THEN << Ev("tflite.run", buffer, buffer) >>
                         ELSE IF es.engine = "ONNX"
                            THEN << Ev("onnx.run", buffer, buffer) >>
                         ELSE << >>)
                     \o (IF throws THEN << Call("catch") >> ELSE << >>)]

----------------------------------------------------------------------------
(* security/lock_manager.cpp: the degradation state *)

RVCPrecision == { "FP32", "FP16", "INT8" }

StabilityState ==
    [mode      |-> isDegradationActive_,
     plc       |-> isPLCActive_,
     precision |-> currentRVCPrecision_]

\* LockManager::LockManager
LockManagerInit == [mode |-> FALSE, plc |-> FALSE, precision |-> "FP32"]

MutantForceDegradationStepped(ss) ==
    IF ss.mode
    THEN [ss EXCEPT !.precision = "INT8"]
    ELSE [mode |-> TRUE, plc |-> TRUE, precision |-> "FP16"]

MutantForceDegradationNoPLC(ss) ==
    IF ss.mode THEN ss
    ELSE [ss EXCEPT !.mode = TRUE, !.precision = "FP16"]

\* LockManager::forceDegradation, under stateMutex_
forceDegradation(ss) ==
    IF ss.mode THEN ss
    ELSE [mode |-> TRUE, plc |-> TRUE, precision |-> "FP16"]

MutantRestoreKeepsPLC(ss) ==
    IF ~ss.mode THEN ss
    ELSE [ss EXCEPT !.mode = FALSE, !.precision = "FP32"]

MutantRestoreKeepsPrecision(ss) ==
    IF ~ss.mode THEN ss
    ELSE [ss EXCEPT !.mode = FALSE, !.plc = FALSE]

\* LockManager::restorePerformance, under stateMutex_
restorePerformance(ss) ==
    IF ~ss.mode THEN ss
    ELSE [mode |-> FALSE, plc |-> FALSE, precision |-> "FP32"]

----------------------------------------------------------------------------
(* rvc_engine.cpp: the JNI entry points *)

\* constexpr int WATCHDOG_TIMEOUT_MS, the deadline of a packet
WATCHDOG_TIMEOUT_MS == 30

\* pipeline durations (microseconds): below, at and above the deadline
UsPerMs == 10 * 10 * 10

WithinDeadlineUs == 20 * UsPerMs

DurationsUs == { WithinDeadlineUs, 30 * UsPerMs, 40 * UsPerMs }

\* Java_com_rvc_patch_ipc_IPCManager_processAudioNative on the packet `input`
\* the caller has put in the shared buffer; plcActive is what
\* LockManager::isPLCActive() returns, plcWas the concealer's flag at entry.
\* sharedBufferPtr is set whenever isEngineInitialized is. The latency measured
\* at the end is only logged. An exception of the backend never arrives here:
\* runInference catches it.
processAudioNative(initialized, transforming, es, plcActive, plcWas, input, throws) ==
    IF ~initialized
    THEN [buffer |-> input, isActive |-> plcWas, calls |-> << >>, ret |-> FALSE]
    ELSE IF ~transforming
    THEN LET low == applyLowPowerDSP(input)
         IN  [buffer |-> low.buffer, isActive |-> plcWas,
              calls |-> low.calls, ret |-> TRUE]
    ELSE LET pre  == applyAcousticPreprocessing(input)
             inf  == runInference(es, pre.buffer, throws)
             post == applyPostProcessing(plcActive, inf.buffer)
         IN  [buffer |-> post.buffer, isActive |-> post.isActive,
              calls |-> pre.calls \o inf.calls \o post.calls, ret |-> TRUE]

\* the record of a call: the operation, its arguments, what the backends do in
\* it (ok: the backend's loadModel succeeds; throws: its run() throws) and, for
\* the lock manager's transitions, the mode at entry
NoArgs(op) ==
    [op |-> op, path |-> EmptyPath, bench |-> << >>, ok |-> FALSE,
     in |-> << >>, throws |-> FALSE, wasDegraded |-> FALSE]

LastLoad(op, path, dspTime, gpuTime, backendOk) ==
    [NoArgs(op) EXCEPT !.path = path, !.bench = << dspTime, gpuTime >>,
                       !.ok = backendOk]

LastPacket(input, throws) ==
    [NoArgs("processAudioNative") EXCEPT !.in = input, !.throws = throws]

LastLock(op) == [NoArgs(op) EXCEPT !.wasDegraded = isDegradationActive_]

\* The shared buffer is the caller's between calls: the caller fills it before
\* each processAudioNative, and only that call reads or writes it. A call that
\* is not processAudioNative has no packet.
NoPacket == sharedBuffer' = << >>

SetEngineState(es) ==
    /\ isModelLoaded_'    = es.loaded
    /\ currentModelPath_' = es.path
    /\ currentEngine_'    = es.engine
    /\ currentDelegate_'  = es.delegate

SetStabilityState(ss) ==
    /\ isDegradationActive_' = ss.mode
    /\ isPLCActive_'         = ss.plc
    /\ currentRVCPrecision_' = ss.precision

\* InferenceEngineManager::loadDefaultModel: loads the default model file
loadDefaultModel(es, defaultPath, dspTime, gpuTime, backendOk) ==
    loadModel(es, defaultPath, dspTime, gpuTime, backendOk)

\* no buffer handed to the concealer on its own
NoFade == [active |-> FALSE, buffer |-> << >>]

\* two invocations of processAudioNative can be in progress
Invocations == { 1, 2 }

\* no thread is running and no packet has been measured
ThreadsInit ==
    /\ wdPc = "none"
    /\ tdPc = "idle"
    /\ deadlineMissed = FALSE
    /\ quietTicks = 0
    /\ ctlPc = "idle"
    /\ infPc = "idle"
    /\ pipePc = [i \in Invocations |-> "idle"]
    /\ lockPc = "idle"
    /\ snapPc = "mode"
    /\ snapshot = LockManagerInit

Init ==
    /\ isEngineInitialized = FALSE
    /\ isRVCTransforming = FALSE
    /\ sharedBuffer = << >>
    /\ isModelLoaded_ = FALSE
    /\ currentModelPath_ = EmptyPath
    /\ currentEngine_ \in EngineType      \* not set by the constructor
    /\ currentDelegate_ \in DelegateType  \* not set by the constructor
    /\ isDegradationActive_ = LockManagerInit.mode
    /\ isPLCActive_ = LockManagerInit.plc
    /\ currentRVCPrecision_ = LockManagerInit.precision
    /\ isActive = FALSE
    /\ last = NoArgs("none")
    /\ calls = << >>
    /\ result = "none"
    /\ benchIn = << >>
    /\ benchOut = "none"
    /\ plcIn = NoFade
    /\ plcOut = [done |-> FALSE, buffer |-> << >>]
    /\ ThreadsInit

InitializeNativeEngine(mmapOk, defaultPath, dspTime, gpuTime, backendOk) ==
    /\ last' = IF isEngineInitialized \/ ~mmapOk
               THEN NoArgs("initializeNativeEngine")
               ELSE LastLoad("initializeNativeEngine", defaultPath, dspTime, gpuTime,
                             backendOk)
    /\ NoPacket
    /\ IF isEngineInitialized
       THEN /\ result' = TRUE
            /\ calls' = << >>
            /\ UNCHANGED << isEngineInitialized, engineVars >>
       ELSE IF ~mmapOk
       THEN /\ result' = FALSE
            /\ calls' = << >>
            /\ UNCHANGED << isEngineInitialized, engineVars >>
       ELSE LET r == loadDefaultModel(EngineState, defaultPath, dspTime, gpuTime, backendOk)
            IN  /\ SetEngineState(r.es)
                /\ calls' = r.calls
                /\ isEngineInitialized' = TRUE
                /\ result' = TRUE
    /\ UNCHANGED << isRVCTransforming, lockVars, isActive, benchVars, threadVars >>

SetTransformEnabled(enabled) ==
    /\ isRVCTransforming' = enabled
    /\ last' = NoArgs("setTransformEnabled")
    /\ NoPacket
    /\ calls' = << >>
    /\ result' = "void"
    /\ UNCHANGED << isEngineInitialized, engineVars, lockVars, isActive, benchVars,
                    threadVars >>

LoadModel(modelPath, dspTime, gpuTime, backendOk) ==
    /\ isEngineInitialized
    /\ LET r == loadModel(EngineState, modelPath, dspTime, gpuTime, backendOk)
       IN  /\ SetEngineState(r.es)
           /\ calls' = r.calls
           /\ result' = r.ret
    /\ last' = LastLoad("loadModel", modelPath, dspTime, gpuTime, backendOk)
    /\ NoPacket
    /\ UNCHANGED << jniVars, lockVars, isActive, benchVars, threadVars >>

UnloadModel ==
    /\ isEngineInitialized
    /\ SetEngineState(unloadModel(EngineState))
    /\ last' = NoArgs("unloadModel")
    /\ NoPacket
    /\ calls' = << >>
    /\ result' = "void"
    /\ UNCHANGED << jniVars, lockVars, isActive, benchVars, threadVars >>

ForceDegradation ==
    /\ SetStabilityState(forceDegradation(StabilityState))
    /\ last' = LastLock("forceDegradation")
    /\ NoPacket
    /\ calls' = << >>
    /\ result' = "void"
    /\ quietTicks' = IF isDegradationActive_ THEN quietTicks ELSE 0
    /\ UNCHANGED << jniVars, engineVars, isActive, benchVars,
                    wdPc, tdPc, deadlineMissed, concVars >>

RestorePerformance ==
    /\ SetStabilityState(restorePerformance(StabilityState))
    /\ last' = LastLock("restorePerformance")
    /\ NoPacket
    /\ calls' = << >>
    /\ result' = "void"
    /\ UNCHANGED << jniVars, engineVars, isActive, benchVars, threadVars >>

\* durationUs is the time the pipeline took, measured on the path of an
\* enabled transform only.
ProcessAudioNative(input, throws, durationUs) ==
    /\ LET r == processAudioNative(isEngineInitialized, isRVCTransforming,
                                   EngineState, isPLCActive_, isActive, input, throws)
       IN  /\ sharedBuffer' = r.buffer
           /\ isActive' = r.isActive
           /\ calls' = r.calls
           /\ result' = r.ret
    /\ last' = LastPacket(input, throws)
    /\ IF isEngineInitialized /\ isRVCTransforming
       THEN /\ deadlineMissed' = (durationUs > WATCHDOG_TIMEOUT_MS * UsPerMs)
            /\ quietTicks' = IF deadlineMissed' THEN 0 ELSE quietTicks
       ELSE UNCHANGED << deadlineMissed, quietTicks >>
    /\ UNCHANGED << jniVars, engineVars, lockVars, benchVars, wdPc, tdPc, concVars >>

\* The calls one after the other. The duration of a packet only matters to the
\* watchdog (SpecWatchdog): here every packet is within the deadline.
Next ==
    \/ \E mmapOk \in BOOLEAN, p \in Paths, b \in BenchPairs, ok \in BOOLEAN :
          InitializeNativeEngine(mmapOk, p, b[1], b[2], ok)
    \/ \E b \in BOOLEAN : SetTransformEnabled(b)
    \/ \E p \in Paths, b \in BenchPairs, ok \in BOOLEAN :
          LoadModel(p, b[1], b[2], ok)
    \/ UnloadModel
    \/ ForceDegradation
    \/ RestorePerformance
    \/ \E input \in Buffers, throws \in BOOLEAN :
          ProcessAudioNative(input, throws, WithinDeadlineUs)

Spec == Init /\ [][Next]_vars

----------------------------------------------------------------------------
(* The delegate selection on its own, over every triple of latencies *)

InitBench ==
    /\ isEngineInitialized = FALSE
    /\ isRVCTransforming = FALSE
    /\ sharedBuffer = << >>
    /\ isModelLoaded_ = FALSE
    /\ currentModelPath_ = EmptyPath
    /\ currentEngine_ \in EngineType
    /\ currentDelegate_ \in DelegateType
    /\ isDegradationActive_ = LockManagerInit.mode
    /\ isPLCActive_ = LockManagerInit.plc
    /\ currentRVCPrecision_ = LockManagerInit.precision
    /\ isActive = FALSE
    /\ last = NoArgs("none")
    /\ calls = << >>
    /\ result = "none"
    /\ benchIn \in Latencies \X Latencies \X Latencies
    /\ benchOut = "none"
    /\ plcIn = NoFade
    /\ plcOut = [done |-> FALSE, buffer |-> << >>]
    /\ ThreadsInit

BenchmarkAllDelegates ==
    /\ benchOut = "none"
    /\ benchOut' = selectDelegate(benchIn[1], benchIn[2], benchIn[3])
    /\ UNCHANGED << jniVars, sharedBuffer, engineVars, lockVars, isActive,
                    last, calls, result, benchIn, plcIn, plcOut, threadVars >>

NextBench == BenchmarkAllDelegates

SpecBench == InitBench /\ [][NextBench]_vars

----------------------------------------------------------------------------
(* PacketLossConcealer::process on its own, active and inactive *)

\* longest buffer handed to the concealer
MaxFade == 4

FadeBuffers == UNION { [1..n -> Samples] : n \in 0..MaxFade }

InitFade ==
    /\ isEngineInitialized = FALSE
    /\ isRVCTransforming = FALSE
    /\ sharedBuffer = << >>
    /\ isModelLoaded_ = FALSE
    /\ currentModelPath_ = EmptyPath
    /\ currentEngine_ = "TFLITE"
    /\ currentDelegate_ = "CPU"
    /\ isDegradationActive_ = LockManagerInit.mode
    /\ isPLCActive_ = LockManagerInit.plc
    /\ currentRVCPrecision_ = LockManagerInit.precision
    /\ isActive = FALSE
    /\ last = NoArgs("none")
    /\ calls = << >>
    /\ result = "none"
    /\ benchIn = << >>
    /\ benchOut = "none"
    /\ plcIn \in [active : BOOLEAN, buffer : FadeBuffers]
    /\ plcOut = [done |-> FALSE, buffer |-> << >>]
    /\ ThreadsInit

Conceal ==
    /\ ~plcOut.done
    /\ plcOut' = [done |-> TRUE,
                  buffer |-> PacketLossConcealer(plcIn.active, plcIn.buffer)]
    /\ UNCHANGED << jniVars, sharedBuffer, engineVars, lockVars, isActive,
                    last, calls, result, benchIn, benchOut, plcIn, threadVars >>

NextFade == Conceal

SpecFade == InitFade /\ [][NextFade]_vars

----------------------------------------------------------------------------
(* rvc_engine.cpp: the watchdog thread beside the engine's calls *)

\* watchdog iterations without a violation that make a quiet window
QuietWindow == 2

\* packets of the specifications with threads: at most one sample
ShortPackets == { b \in Buffers : Len(b) <= 1 }

\* the steps of the watchdog and of the teardown are no calls of the engine:
\* they leave the engine's state and the record of the last call alone
OutsideCalls ==
    UNCHANGED << isRVCTransforming, sharedBuffer, engineVars, lockVars, isActive,
                 last, calls, result, benchVars, concVars >>

\* pthread_create(&watchdogThread, ..., watchdog_loop, ...) once the engine is
\* initialized
StartWatchdog ==
    /\ isEngineInitialized /\ tdPc = "idle" /\ wdPc = "none"
    /\ wdPc' = "test"
    /\ UNCHANGED << isEngineInitialized, tdPc, deadlineMissed, quietTicks >>
    /\ OutsideCalls

MutantWatchdogNeverExits ==
    /\ wdPc = "test"
    /\ wdPc' = "sleep"
    /\ quietTicks' = Min(quietTicks + 1, QuietWindow)
    /\ UNCHANGED << isEngineInitialized, tdPc, deadlineMissed >>
    /\ OutsideCalls

\* watchdog_loop: the test of while(isEngineInitialized) and, when it holds,
\* the body up to usleep. The body calls nothing: the checks and the calls of
\* forceDegradation are comments.
WatchdogTest ==
    /\ wdPc = "test"
    /\ IF isEngineInitialized
       THEN /\ wdPc' = "sleep"
            /\ quietTicks' = Min(quietTicks + 1, QuietWindow)
       ELSE /\ wdPc' = "exited"
            /\ UNCHANGED quietTicks
    /\ UNCHANGED << isEngineInitialized, tdPc, deadlineMissed >>
    /\ OutsideCalls

\* watchdog_loop: usleep(10000) returns
WatchdogSleep ==
    /\ wdPc = "sleep"
    /\ wdPc' = "test"
    /\ UNCHANGED << isEngineInitialized, tdPc, deadlineMissed, quietTicks >>
    /\ OutsideCalls

\* teardown signals the shutdown: it clears isEngineInitialized
TeardownSignal ==
    /\ isEngineInitialized /\ tdPc = "idle"
    /\ isEngineInitialized' = FALSE
    /\ tdPc' = "join"
    /\ UNCHANGED << wdPc, deadlineMissed, quietTicks >>
    /\ OutsideCalls

\* teardown joins watchdogThread, if it was started, and returns
TeardownJoin ==
    /\ tdPc = "join" /\ wdPc \in { "none", "exited" }
    /\ tdPc' = "idle"
    /\ wdPc' = "none"
    /\ UNCHANGED << isEngineInitialized, deadlineMissed, quietTicks >>
    /\ OutsideCalls

\* The calls of the control surface are made one after the other: none is made
\* while teardown is waiting.
NextWatchdog ==
    \/ /\ tdPc = "idle"
       /\ \/ \E mmapOk \in BOOLEAN, b \in BenchPairs, ok \in BOOLEAN :
                InitializeNativeEngine(mmapOk, P_tflite, b[1], b[2], ok)
          \/ \E b \in BOOLEAN : SetTransformEnabled(b)
          \/ \E input \in ShortPackets, us \in DurationsUs :
                ProcessAudioNative(input, FALSE, us)
          \/ ForceDegradation
          \/ RestorePerformance
    \/ StartWatchdog
    \/ WatchdogTest
    \/ WatchdogSleep
    \/ TeardownSignal
    \/ TeardownJoin

SpecWatchdog == Init /\ [][NextWatchdog]_vars

\* the scheduler runs the watchdog thread and the thread of teardown
SpecWatchdogFair ==
    /\ SpecWatchdog
    /\ WF_vars(WatchdogTest) /\ WF_vars(WatchdogSleep) /\ WF_vars(TeardownJoin)

----------------------------------------------------------------------------
(* inference/ie_manager.cpp: loadModel on the control thread, statement by   *)
(* statement, beside runInference on the audio thread. The manager has no    *)
(* lock: the members are read and written as the two threads reach them.     *)

\* what the steps of the two threads leave alone
OutsideManager ==
    UNCHANGED << jniVars, sharedBuffer, lockVars, isActive, benchVars,
                 watchdogVars, pipePc, lockPc, snapPc, snapshot >>

\* loadModel is entered: if (isModelLoaded_)
LoadBegin(modelPath, dspTime, gpuTime, backendOk) ==
    /\ isEngineInitialized /\ ctlPc = "idle"
    /\ ctlPc' = IF isModelLoaded_ THEN "unload" ELSE "path"
    /\ last' = LastLoad("loadModel", modelPath, dspTime, gpuTime, backendOk)
    /\ calls' = << >>
    /\ result' = "none"
    /\ UNCHANGED << engineVars, infPc >>
    /\ OutsideManager

\* loadModel: unloadModel()
LoadUnload ==
    /\ ctlPc = "unload"
    /\ SetEngineState(unloadModel(EngineState))
    /\ ctlPc' = "path"
    /\ UNCHANGED << last, calls, result, infPc >>
    /\ OutsideManager

\* loadModel: currentModelPath_ = modelPath
LoadPath ==
    /\ ctlPc = "path"
    /\ currentModelPath_' = last.path
    /\ ctlPc' = "delegate"
    /\ UNCHANGED << isModelLoaded_, currentEngine_, currentDelegate_,
                    last, calls, result, infPc >>
    /\ OutsideManager

\* loadModel: currentDelegate_ = benchmarkAllDelegates(...)
LoadDelegate ==
    /\ ctlPc = "delegate"
    /\ currentDelegate_' = selectDelegate(last.bench[1], last.bench[2], cpuTimeMs)
    /\ ctlPc' = "backend"
    /\ UNCHANGED << isModelLoaded_, currentModelPath_, currentEngine_,
                    last, calls, result, infPc >>
    /\ OutsideManager

\* loadModel: the backend of the type loads the model, then currentEngine_ is
\* assigned
LoadBackend ==
    /\ ctlPc = "backend"
    /\ currentEngine_' = IF determineModelType(last.path) = "UNKNOWN"
                         THEN currentEngine_
                         ELSE determineModelType(last.path)
    /\ ctlPc' = "flag"
    /\ UNCHANGED << isModelLoaded_, currentModelPath_, currentDelegate_,
                    last, calls, result, infPc >>
    /\ OutsideManager

\* loadModel: if (loadSuccess) isModelLoaded_ = true, and the return
LoadFlag ==
    /\ ctlPc = "flag"
    /\ LET loadSuccess == determineModelType(last.path) # "UNKNOWN" /\ last.ok
       IN  /\ isModelLoaded_' = (isModelLoaded_ \/ loadSuccess)
           /\ result' = loadSuccess
    /\ ctlPc' = "idle"
    /\ UNCHANGED << currentModelPath_, currentEngine_, currentDelegate_,
                    last, calls, infPc >>
    /\ OutsideManager

\* runInference: if (!isModelLoaded_) return
InferenceCheck ==
    /\ isEngineInitialized /\ infPc = "idle"
    /\ infPc' = IF isModelLoaded_ THEN "dispatch" ELSE "idle"
    /\ calls' = << Call("runInference") >>
    /\ UNCHANGED << engineVars, last, result, ctlPc >>
    /\ OutsideManager

\* runInference: the backend of currentEngine_ runs
InferenceDispatch ==
    /\ infPc = "dispatch"
    /\ infPc' = "idle"
    /\ calls' = calls \o << Call(IF currentEngine_ = "TFLITE" THEN "tflite.run"
                                 ELSE "onnx.run") >>
    /\ UNCHANGED << engineVars, last, result, ctlPc >>
    /\ OutsideManager

NextLoadRace ==
    \/ /\ ctlPc = "idle" /\ infPc = "idle"
       /\ \E p \in Paths, b \in BenchPairs, ok \in BOOLEAN :
             InitializeNativeEngine(TRUE, p, b[1], b[2], ok)
    \/ \E p \in Paths, b \in BenchPairs, ok \in BOOLEAN :
          LoadBegin(p, b[1], b[2], ok)
    \/ LoadUnload
    \/ LoadPath
    \/ LoadDelegate
    \/ LoadBackend
    \/ LoadFlag
    \/ ctlPc = "idle" /\ UnloadModel
    \/ InferenceCheck
    \/ InferenceDispatch

SpecLoadRace == Init /\ [][NextLoadRace]_vars

----------------------------------------------------------------------------
(* rvc_engine.cpp: two invocations of processAudioNative on the shared       *)
(* buffer, stage by stage. The function has no guard against a second entry. *)

OutsidePipeline ==
    UNCHANGED << jniVars, engineVars, lockVars, last, calls, benchVars,
                 watchdogVars, ctlPc, infPc, lockPc, snapPc, snapshot >>

\* the caller fills the shared buffer while no invocation is in progress
FillBuffer(input) ==
    /\ isEngineInitialized
    /\ \A i \in Invocations : pipePc[i] = "idle"
    /\ sharedBuffer' = input
    /\ UNCHANGED << isActive, result, pipePc >>
    /\ OutsidePipeline

\* processAudioNative is entered: the test of isEngineInitialized and of
\* isRVCTransforming
PipelineEnter(i) ==
    /\ isEngineInitialized /\ pipePc[i] = "idle"
    /\ pipePc' = [pipePc EXCEPT ![i] = IF isRVCTransforming THEN "pre" ELSE "low"]
    /\ UNCHANGED << sharedBuffer, isActive, result >>
    /\ OutsidePipeline

\* fxGraph->applyLowPowerDSP and return JNI_TRUE
PipelineLowPower(i) ==
    /\ pipePc[i] = "low"
    /\ sharedBuffer' = applyLowPowerDSP(sharedBuffer).buffer
    /\ pipePc' = [pipePc EXCEPT ![i] = "idle"]
    /\ result' = TRUE
    /\ UNCHANGED isActive
    /\ OutsidePipeline

\* fxGraph->applyAcousticPreprocessing
PipelinePre(i) ==
    /\ pipePc[i] = "pre"
    /\ sharedBuffer' = applyAcousticPreprocessing(sharedBuffer).buffer
    /\ pipePc' = [pipePc EXCEPT ![i] = "inf"]
    /\ UNCHANGED << isActive, result >>
    /\ OutsidePipeline

\* ieManager->runInference
PipelineInference(i) ==
    /\ pipePc[i] = "inf"
    /\ sharedBuffer' = runInference(EngineState, sharedBuffer, FALSE).buffer
    /\ pipePc' = [pipePc EXCEPT ![i] = "post"]
    /\ UNCHANGED << isActive, result >>
    /\ OutsidePipeline

\* fxGraph->applyPostProcessing and return JNI_TRUE
PipelinePost(i) ==
    /\ pipePc[i] = "post"
    /\ LET post == applyPostProcessing(isPLCActive_, sharedBuffer)
       IN  /\ sharedBuffer' = post.buffer
           /\ isActive' = post.isActive
    /\ pipePc' = [pipePc EXCEPT ![i] = "idle"]
    /\ result' = TRUE
    /\ OutsidePipeline

NextReentry ==
    \/ /\ \A i \in Invocations : pipePc[i] = "idle"
       /\ \/ \E ok \in BOOLEAN :
                InitializeNativeEngine(TRUE, P_tflite, 15, 18, ok)
          \/ \E b \in BOOLEAN : SetTransformEnabled(b)
    \/ \E input \in ShortPackets : FillBuffer(input)
    \/ \E i \in Invocations :
          \/ PipelineEnter(i)
          \/ PipelineLowPower(i)
          \/ PipelinePre(i)
          \/ PipelineInference(i)
          \/ PipelinePost(i)

SpecReentry == Init /\ [][NextReentry]_vars

----------------------------------------------------------------------------
(* security/lock_manager.cpp: the transitions statement by statement under   *)
(* stateMutex_, beside a reader that calls the three accessors. The          *)
(* accessors take no lock.                                                   *)

OutsideLockManager ==
    UNCHANGED << jniVars, sharedBuffer, engineVars, isActive, calls, result,
                 benchVars, watchdogVars, ctlPc, infPc, pipePc >>

\* forceDegradation: stateMutex_ is taken, the test of isDegradationActive_,
\* isDegradationActive_ = true
ForceBegin ==
    /\ lockPc = "idle"
    /\ last' = LastLock("forceDegradation")
    /\ IF isDegradationActive_
       THEN UNCHANGED << lockVars, lockPc >>
       ELSE /\ isDegradationActive_' = TRUE
            /\ lockPc' = "force_precision"
            /\ UNCHANGED << isPLCActive_, currentRVCPrecision_ >>
    /\ UNCHANGED << snapPc, snapshot >>
    /\ OutsideLockManager

\* forceDegradation: currentRVCPrecision_ = RVCPrecision::FP16
ForcePrecision ==
    /\ lockPc = "force_precision"
    /\ currentRVCPrecision_' = "FP16"
    /\ lockPc' = "force_plc"
    /\ UNCHANGED << isDegradationActive_, isPLCActive_, last, snapPc, snapshot >>
    /\ OutsideLockManager

\* forceDegradation: isPLCActive_ = true, stateMutex_ is released
ForcePLC ==
    /\ lockPc = "force_plc"
    /\ isPLCActive_' = TRUE
    /\ lockPc' = "idle"
    /\ UNCHANGED << isDegradationActive_, currentRVCPrecision_, last, snapPc, snapshot >>
    /\ OutsideLockManager

\* restorePerformance: stateMutex_ is taken, the test of isDegradationActive_,
\* isDegradationActive_ = false
RestoreBegin ==
    /\ lockPc = "idle"
    /\ last' = LastLock("restorePerformance")
    /\ IF ~isDegradationActive_
       THEN UNCHANGED << lockVars, lockPc >>
       ELSE /\ isDegradationActive_' = FALSE
            /\ lockPc' = "restore_precision"
            /\ UNCHANGED << isPLCActive_, currentRVCPrecision_ >>
    /\ UNCHANGED << snapPc, snapshot >>
    /\ OutsideLockManager

\* restorePerformance: currentRVCPrecision_ = RVCPrecision::FP32
RestorePrecision ==
    /\ lockPc = "restore_precision"
    /\ currentRVCPrecision_' = "FP32"
    /\ lockPc' = "restore_plc"
    /\ UNCHANGED << isDegradationActive_, isPLCActive_, last, snapPc, snapshot >>
    /\ OutsideLockManager

\* restorePerformance: isPLCActive_ = false, stateMutex_ is released
RestorePLC ==
    /\ lockPc = "restore_plc"
    /\ isPLCActive_' = FALSE
    /\ lockPc' = "idle"
    /\ UNCHANGED << isDegradationActive_, currentRVCPrecision_, last, snapPc, snapshot >>
    /\ OutsideLockManager

\* LockManager::isDegradationModeActive, the first read of a snapshot
ReadMode ==
    /\ snapPc \in { "mode", "done" }
    /\ snapshot' = [snapshot EXCEPT !.mode = isDegradationActive_]
    /\ snapPc' = "plc"
    /\ UNCHANGED << lockVars, lockPc, last >>
    /\ OutsideLockManager

\* LockManager::isPLCActive
ReadPLC ==
    /\ snapPc = "plc"
    /\ snapshot' = [snapshot EXCEPT !.plc = isPLCActive_]
    /\ snapPc' = "precision"
    /\ UNCHANGED << lockVars, lockPc, last >>
    /\ OutsideLockManager

\* LockManager::getCurrentPrecision, the last read of a snapshot
ReadPrecision ==
    /\ snapPc = "precision"
    /\ snapshot' = [snapshot EXCEPT !.precision = currentRVCPrecision_]
    /\ snapPc' = "done"
    /\ UNCHANGED << lockVars, lockPc, last >>
    /\ OutsideLockManager

NextSnapshot ==
    \/ ForceBegin
    \/ ForcePrecision
    \/ ForcePLC
    \/ RestoreBegin
    \/ RestorePrecision
    \/ RestorePLC
    \/ ReadMode
    \/ ReadPLC
    \/ ReadPrecision

SpecSnapshot == Init /\ [][NextSnapshot]_vars

----------------------------------------------------------------------------
(* Properties *)

Names(c) == [i \in 1..Len(c) |-> c[i].name]

HasCall(name) == \E i \in 1..Len(calls) : calls[i].name = name

IsPacket == last.op = "processAudioNative" /\ isEngineInitialized

DelegateOrder == << "DSP", "GPU", "CPU" >>

\* the delegates of a triple of latencies that are at or below the ceiling
Eligible(t) == { i \in 1..3 : t[i] <= ceilingMs }

\* the lowest latency at or below the ceiling, the first in the order on a tie
FirstLowest(t) ==
    DelegateOrder[CHOOSE i \in Eligible(t) :
                    \A j \in Eligible(t) : t[i] < t[j] \/ (t[i] = t[j] /\ i <= j)]

\* C1: loadModel with a path whose suffix is neither .tflite nor .onnx, called
\* while a model is loaded, returns failure and leaves the EngineState (loaded
\* flag, model path, backend, delegate) as it was before the call.
C1_UnknownSuffixLeavesState ==
    [][ (last'.op = "loadModel" /\ isModelLoaded_
         /\ determineModelType(last'.path) = "UNKNOWN")
        => (result' = FALSE /\ UNCHANGED engineVars) ]_vars

\* C2: a packet processed with the transform enabled in which the backend's
\* run fails is reported as a failure, and the buffer after the call is the
\* content it had before the failing inference call.
C2_InferenceFailureReported ==
    (IsPacket /\ HasCall("catch"))
        => /\ result = FALSE
           /\ \A i \in 1..Len(calls) :
                 calls[i].name \in { "tflite.run", "onnx.run" }
                    => sharedBuffer = calls[i].in

\* C3: at most one model is loaded: whenever a model is loaded the path and the
\* backend describe that one model; after a successful loadModel(B) the loaded
\* flag, path, backend and delegate are those of B; and a model loaded at entry
\* is unloaded first, before the type of B is determined and B is loaded.
C3_OneModelLoaded ==
    [][ /\ isModelLoaded_' => determineModelType(currentModelPath_') = currentEngine_'
        /\ (last'.op = "loadModel" /\ result' = TRUE)
              => /\ isModelLoaded_'
                 /\ currentModelPath_' = last'.path
                 /\ currentEngine_' = determineModelType(last'.path)
                 /\ currentDelegate_' =
                       selectDelegate(last'.bench[1], last'.bench[2], cpuTimeMs)
        /\ last'.op = "loadModel"
              => /\ isModelLoaded_ => calls'[1].name = "unloadModel"
                 /\ \A i \in 1..Len(calls') :
                       calls'[i].name = "unloadModel" => i = 1
        /\ last'.op = "unloadModel" => ~isModelLoaded_' ]_vars

C3_Witness ==
    /\ last.op = "loadModel" /\ result = TRUE
    /\ last.path = P_onnx
    /\ Names(calls) = << "unloadModel", "determineModelType",
                         "benchmarkAllDelegates", "onnx.loadModel" >>
    /\ isModelLoaded_ /\ currentModelPath_ = P_onnx /\ currentEngine_ = "ONNX"

\* C4: when at least one delegate is at or below the ceiling, the selection is
\* the delegate with the lowest latency among those at or below it, and on a
\* tie the first of them in the order DSP, GPU, CPU.
C4_LowestFirstOnTie ==
    LET measured == << last.bench[1], last.bench[2], cpuTimeMs >>
    IN  (last.op = "loadModel" /\ Eligible(measured) # {})
            => currentDelegate_ = FirstLowest(measured)

\* C5: when no delegate is at or below the ceiling, the selection is CPU.
C5_NoneEligibleSelectsCPU ==
    (benchOut # "none" /\ Eligible(benchIn) = {}) => benchOut = "CPU"

C5_Witness == benchIn = << 25, 22, 25 >> /\ benchOut = "CPU"

\* C6: in every reachable state the concealment flag is set if and only if the
\* mode is Degraded.
C6_PLCIffDegraded == isPLCActive_ <=> isDegradationActive_

C6_Witness ==
    /\ last.op = "restorePerformance" /\ last.wasDegraded
    /\ ~isPLCActive_ /\ ~isDegradationActive_

\* C7: forceDegradation is idempotent: in the state a call leaves, a second
\* call changes nothing, and a call made while Degraded changes nothing.
C7_ForceDegradationIdempotent ==
    [][ last'.op = "forceDegradation"
        => /\ forceDegradation(StabilityState') = StabilityState'
           /\ isDegradationActive_ => UNCHANGED lockVars ]_vars

C7_Witness ==
    /\ last.op = "forceDegradation" /\ last.wasDegraded
    /\ StabilityState = [mode |-> TRUE, plc |-> TRUE, precision |-> "FP16"]

\* C8: a packet processed with the transform disabled makes no call into the
\* inference engine manager and leaves the EngineState as it was, and the
\* buffer goes through the gate and then the limiter, and through nothing else.
C8_BypassGateLimiterOnly ==
    [][ (last'.op = "processAudioNative" /\ isEngineInitialized
         /\ ~isRVCTransforming)
        => /\ UNCHANGED engineVars
           /\ result' = TRUE
           /\ Names(calls') = << "aec.process", "compressor.process" >>
           /\ calls'[1].in = last'.in
           /\ calls'[2].in = calls'[1].out
           /\ sharedBuffer' = calls'[2].out
           /\ sharedBuffer' = MultibandCompressor(AcousticEchoCanceller(last'.in)) ]_vars

C8_Witness ==
    /\ IsPacket /\ ~isRVCTransforming /\ isModelLoaded_
    /\ last.in = << -4, 1500 >>
    /\ sharedBuffer = << 0, 990 >>

\* C9: a packet processed with the transform enabled runs, in post-processing,
\* the concealer and not the compressor/limiter while the mode is Degraded, and
\* the compressor/limiter with the concealer deactivated while it is Normal.
C9_PostProcessingBranch ==
    (IsPacket /\ isRVCTransforming)
        => IF isDegradationActive_
           THEN HasCall("plc.process") /\ ~HasCall("compressor.process")
                /\ isActive
           ELSE HasCall("compressor.process") /\ ~HasCall("plc.process")
                /\ HasCall("plc.deactivate") /\ ~isActive

C9_Witness ==
    /\ IsPacket /\ isRVCTransforming /\ isDegradationActive_
    /\ HasCall("plc.process") /\ isActive
    /\ Len(last.in) = MaxSamples

\* C10: the compressor/limiter stage outputs every sample clamped to
\* [-limit, +limit]: no output sample exceeds the limit in absolute value, and a
\* sample within the limit, a zero sample in particular, is left as it is.
C10_LimiterClamps ==
    \A i \in 1..Len(calls) :
        calls[i].name = "compressor.process"
            => /\ Len(calls[i].out) = Len(calls[i].in)
               /\ \A k \in 1..Len(calls[i].in) :
                     /\ Abs(calls[i].out[k]) <= limit
                     /\ Abs(calls[i].in[k]) <= limit
                           => calls[i].out[k] = calls[i].in[k]
                     /\ calls[i].in[k] > limit => calls[i].out[k] = limit
                     /\ calls[i].in[k] < -limit => calls[i].out[k] = -limit

C10_Witness ==
    \E i \in 1..Len(calls) :
        /\ calls[i].name = "compressor.process"
        /\ calls[i].in = << 0, 1500 >>
        /\ calls[i].out = << 0, 990 >>

\* the backends that ran in the last operation
BackendRuns == { i \in 1..Len(calls) : calls[i].name \in { "tflite.run", "onnx.run" } }

\* C11: a packet processed with the transform enabled while no model is loaded
\* runs no backend, has its buffer left by runInference as runInference found
\* it, and is reported as a failure.
C11_NoModelSignalled ==
    (IsPacket /\ isRVCTransforming /\ ~isModelLoaded_)
        => /\ BackendRuns = {}
           /\ Names(calls)[3] = "runInference"
           /\ calls[5].in = calls[2].out
           /\ result = FALSE

\* C12: a loadModel that returns failure leaves no model loaded and no path
\* behind, and when no model was loaded at entry it leaves the EngineState
\* (loaded flag, path, backend, delegate) as it was.
C12_FailedLoadLeavesNothing ==
    [][ (last'.op = "loadModel" /\ result' = FALSE)
        => /\ ~isModelLoaded_'
           /\ currentModelPath_' = EmptyPath
           /\ ~isModelLoaded_ => UNCHANGED engineVars ]_vars

\* C18: unloadModel leaves no model loaded and no path, changes nothing of the
\* EngineState when no model is loaded at entry, and a packet processed while
\* no model is loaded runs no backend.
C18_UnloadResetsAndIsNoOp ==
    [][ /\ last'.op = "unloadModel"
           => /\ ~isModelLoaded_'
              /\ currentModelPath_' = EmptyPath
              /\ ~isModelLoaded_ => UNCHANGED engineVars
        /\ (last'.op = "processAudioNative" /\ ~isModelLoaded_)
           => \A i \in 1..Len(calls') :
                 calls'[i].name \notin { "tflite.run", "onnx.run" } ]_vars

\* C19: in every reachable state the precision is FP16 if and only if the mode
\* is Degraded and FP32 if and only if it is Normal, INT8 never occurs, and
\* before any call the state is Normal, FP32, concealment inactive.
C19_PrecisionFollowsMode ==
    /\ currentRVCPrecision_ = "FP16" <=> isDegradationActive_
    /\ currentRVCPrecision_ = "FP32" <=> ~isDegradationActive_
    /\ currentRVCPrecision_ # "INT8"
    /\ last.op = "none"
          => StabilityState = [mode |-> FALSE, plc |-> FALSE, precision |-> "FP32"]

C19_Witness ==
    /\ last.op = "restorePerformance" /\ last.wasDegraded
    /\ currentRVCPrecision_ = "FP32"

\* C13: a watchdog iteration made while the engine runs and the last measured
\* packet exceeded the deadline calls forceDegradation: the state is Degraded
\* when the iteration sleeps.
C13_WatchdogDegrades ==
    [][ (wdPc = "test" /\ wdPc' = "sleep" /\ deadlineMissed)
        => isDegradationActive_' ]_vars

\* C14: a watchdog iteration made while the state is Degraded and a quiet
\* window has passed since the last violation calls restorePerformance: the
\* state is Normal when the iteration sleeps.
C14_WatchdogRestores ==
    [][ (wdPc = "test" /\ wdPc' = "sleep" /\ isDegradationActive_
         /\ ~deadlineMissed /\ quietTicks >= QuietWindow)
        => ~isDegradationActive_' ]_vars

\* C15: the iteration of the watchdog that finds the engine shut down leaves
\* the loop; once the engine has signalled the shutdown the watchdog thread
\* exits, and the teardown that waits for it returns.
C15_WatchdogExits ==
    /\ [][ (wdPc = "test" /\ ~isEngineInitialized /\ wdPc' # wdPc)
            => wdPc' = "exited" ]_vars
    /\ (~isEngineInitialized /\ wdPc \in { "test", "sleep" }) ~> (wdPc = "exited")
    /\ (tdPc = "join") ~> (tdPc = "idle")

C15_Witness ==
    /\ wdPc = "exited" /\ tdPc = "join" /\ ~isEngineInitialized

\* C16: whenever runInference runs a backend, a model is loaded and the backend
\* is the one of the loaded model's path: no state of a load or unload in
\* progress is what the dispatch acts on.
C16_InferenceSeesWholeState ==
    [][ (infPc = "dispatch" /\ infPc' = "idle")
        => /\ isModelLoaded_
           /\ currentEngine_ = determineModelType(currentModelPath_) ]_vars

\* C17: no two invocations of the pipeline are in their stages on the shared
\* buffer at the same time.
C17_OneInvocationAtATime ==
    \A i, j \in Invocations :
        (pipePc[i] # "idle" /\ pipePc[j] # "idle") => i = j

\* C20: a snapshot read through the three accessors is the Normal state or the
\* Degraded state, never a mix of the two.
C20_SnapshotConsistent ==
    snapPc = "done"
        => snapshot \in { [mode |-> FALSE, plc |-> FALSE, precision |-> "FP32"],
                          [mode |-> TRUE, plc |-> TRUE, precision |-> "FP16"] }

\* C21: restorePerformance leaves the state Normal, FP32, concealment inactive,
\* changes nothing when the state is Normal at entry, and undoes a
\* forceDegradation made from Normal: the state is the initial one again.
C21_RestoreUndoesForce ==
    [][ /\ last'.op = "restorePerformance"
           => /\ StabilityState' = [mode |-> FALSE, plc |-> FALSE, precision |-> "FP32"]
              /\ ~isDegradationActive_ => UNCHANGED lockVars
        /\ (last.op = "forceDegradation" /\ ~last.wasDegraded
            /\ last'.op = "restorePerformance")
           => StabilityState' = LockManagerInit
        /\ ~isDegradationActive_
           => restorePerformance(forceDegradation(StabilityState)) = StabilityState ]_vars

C21_Witness ==
    /\ last.op = "restorePerformance" /\ last.wasDegraded
    /\ StabilityState = LockManagerInit

\* the stages among the calls of the last operation, in order
StageNames ==
    SelectSeq(Names(calls),
              LAMBDA n : n \in { "aec.process", "ns.process", "runInference",
                                 "compressor.process", "plc.process" })

\* C22: every call of the pipeline returns a boolean; with the transform
\* enabled the stages run once each in the order gate, smoothing, inference,
\* post-processing, each on the buffer the one before left, the buffer at the
\* return is the one the last stage left, and no other call runs a stage.
C22_StagesOnceInOrder ==
    /\ last.op # "processAudioNative" => StageNames = << >>
    /\ last.op = "processAudioNative"
        => /\ result \in BOOLEAN
           /\ ~isEngineInitialized => (result = FALSE /\ calls = << >>)
           /\ (isEngineInitialized /\ isRVCTransforming)
                 => /\ result = TRUE
                    /\ \E post \in { "compressor.process", "plc.process" } :
                          StageNames = << "aec.process", "ns.process",
                                          "runInference", post >>
                    /\ calls[1].in = last.in
                    /\ calls[2].in = calls[1].out
                    /\ calls[Len(calls)].in = calls[2].out
                    /\ sharedBuffer = calls[Len(calls)].out

C22_Witness ==
    /\ IsPacket /\ isRVCTransforming /\ isModelLoaded_ /\ ~isDegradationActive_
    /\ last.in = << 1500, -4 >>
    /\ Names(calls) = << "aec.process", "ns.process", "runInference", "tflite.run",
                         "plc.deactivate", "compressor.process" >>

\* C23: after a loadModel that succeeds, the backend the model is loaded on is
\* a backend of the delegate the benchmark selected.
C23_BackendOfDelegate ==
    (last.op = "loadModel" /\ result = TRUE)
        => currentEngine_ \in DelegateBackends(currentDelegate_)

\* C24: a packet that runs a backend reads the precision of the StabilityState
\* (getCurrentPrecision) before the backend runs, so that the run is made at
\* the precision of the state at its start, and no call of the pipeline
\* changes the StabilityState.
C24_PrecisionAtStartOfRun ==
    [][ last'.op = "processAudioNative"
        => /\ UNCHANGED lockVars
           /\ \A i \in 1..Len(calls') :
                 calls'[i].name \in { "tflite.run", "onnx.run" }
                    => \E j \in 1..(i - 1) : calls'[j].name = "getCurrentPrecision" ]_vars

\* C25: an active concealer leaves every sample at most as large in absolute
\* value as it was, the sample times the gain 1 - i/n, and that gain starts at
\* 1, stays between 0 and 1 and never rises with i; an inactive concealer
\* leaves the buffer as it was.
C25_ConcealerNeverAmplifies ==
    plcOut.done
        => IF plcIn.active
           THEN LET n == Len(plcIn.buffer)
                IN  /\ Len(plcOut.buffer) = n
                    /\ \A i \in 1..n :
                          /\ Abs(plcOut.buffer[i]) <= Abs(plcIn.buffer[i])
                          /\ plcOut.buffer[i] = RoundDiv(plcIn.buffer[i] * fadeGain(i, n), SCALE)
                          /\ 0 <= fadeGain(i, n) /\ fadeGain(i, n) <= SCALE
                          /\ i < n => fadeGain(i + 1, n) <= fadeGain(i, n)
                    /\ n > 0 => fadeGain(1, n) = SCALE
           ELSE plcOut.buffer = plcIn.buffer

C25_Witness ==
    /\ plcIn = [active |-> TRUE, buffer |-> << 1500, -1500, 1500, -4 >>]
    /\ plcOut = [done |-> TRUE, buffer |-> << 1500, -1125, 750, -1 >>]

====
